---- MODULE Spec2Model ----
(***************************************************************************)
(* Model of the Cal.com webhook backend: the two webhook handlers of       *)
(* main.py and the CalClient of cal_client.py (actor-identity cache,       *)
(* event-type resolution, slot translation, booking translation).          *)
(*                                                                         *)
(* Handlers are asyncio coroutines on one event loop: the code between two *)
(* awaits runs atomically, so each action below is one such stretch: it    *)
(* starts at a request's arrival or at the arrival of the answer to the    *)
(* remote call the coroutine awaits, and runs to the next remote call or   *)
(* to the end of the request.                                              *)
(*                                                                         *)
(* Strings the code parses are sequences of one-character strings; dates   *)
(* are day numbers; a clock time is a minute of the day.                     *)
(***************************************************************************)
EXTENDS Integers, Sequences, FiniteSets, TLC

\* ------------------------------------------------------------ bounds ----
\* The day date.today() returns; requests carry dates around it.
Today == 10
\* Requests received in one behaviour.
MaxRequests == 2
\* Longest slot list a slots answer carries for the date.
MaxSlots == 2

\* ------------------------------------------------- program constants ----
\* ist_offset = timedelta(hours=5, minutes=30), in minutes.
IstOffsetMinutes == 330
\* _add_minutes_to_time(time_part, 30): the slot length the translator adds.
SlotMinutes == 30
\* event_type.get("length", 30): the duration used when the key is absent.
DefaultLength == 30
\* self.team_id = 85823
TeamId == 85823

\* Python None for a numeric field (an absent key reads as None).
None == -1
\* An absent string-valued key.
Absent == "<absent>"
\* settings.cal_event_type_slug
ConfiguredSlug == "build3-demo"
\* The provider's decline token.
NoUsersToken == "no_available_users_found_error"

\* The two coroutines that may be in flight at once.
Handlers == {"h1", "h2"}

\* Python truthiness of a numeric-or-None value: None and 0 are falsy.
Truthy(x) == x # None /\ x # 0

\* --------------------------------------------------- string parsing ----
Digits == <<"0", "1", "2", "3", "4", "5", "6", "7", "8", "9">>

IsDigit(c) == \E i \in 1..10 : Digits[i] = c

DigitVal(c) == (CHOOSE i \in 1..10 : Digits[i] = c) - 1

IsDigits(s) == \A i \in 1..Len(s) : IsDigit(s[i])

\* Value of a string of one or two digits.
Num(s) ==
    IF Len(s) = 1 THEN DigitVal(s[1])
    ELSE 10 * DigitVal(s[1]) + DigitVal(s[2])

\* A parse that raised ValueError.
ValueError == [ok |-> FALSE, h |-> 0, m |-> 0]

Parsed(hh, mm) == [ok |-> TRUE, h |-> hh, m |-> mm]

\* datetime.strptime(s, "%H:%M"): %H is one or two digits up to 23, %M one
\* or two digits up to 59, and no character may remain.
Strptime(s) ==
    IF \E k \in 1..Len(s) : s[k] = ":"
    THEN LET k == CHOOSE j \in 1..Len(s) :
                      s[j] = ":" /\ \A i \in 1..(j - 1) : s[i] # ":"
             hs == SubSeq(s, 1, k - 1)
             ms == SubSeq(s, k + 1, Len(s))
         IN  IF /\ Len(hs) \in 1..2 /\ Len(ms) \in 1..2
                /\ IsDigits(hs) /\ IsDigits(ms)
                /\ Num(hs) <= 23 /\ Num(ms) <= 59
             THEN Parsed(Num(hs), Num(ms))
             ELSE ValueError
    ELSE ValueError

\* The clock part of datetime.fromisoformat(f"{target_date}T{time}:00"): the
\* text after "T" must read HH:MM[:SS] with two digits each, so a time "HH:MM"
\* gives HH:MM:00 and a bare "HH" gives HH:00.
FromIsoClock(time) ==
    LET s == time \o <<":", "0", "0">>
    IN  IF /\ Len(s) \in {5, 8}
           /\ s[3] = ":" /\ IsDigits(SubSeq(s, 1, 2)) /\ IsDigits(SubSeq(s, 4, 5))
           /\ Num(SubSeq(s, 1, 2)) <= 23 /\ Num(SubSeq(s, 4, 5)) <= 59
           /\ Len(s) = 8 => /\ s[6] = ":" /\ IsDigits(SubSeq(s, 7, 8))
                            /\ Num(SubSeq(s, 7, 8)) <= 59
        THEN Parsed(Num(SubSeq(s, 1, 2)), Num(SubSeq(s, 4, 5)))
        ELSE ValueError

\* strftime("%H:%M") of a clock time.
FormatHM(hh, mm) ==
    <<Digits[(hh \div 10) + 1], Digits[(hh % 10) + 1], ":",
      Digits[(mm \div 10) + 1], Digits[(mm % 10) + 1]>>

\* Mutant of LocalToUtc: the offset is taken as whole hours.
LocalToUtcWholeHours(d, hh, mm) ==
    LET abs == d * 1440 + hh * 60 + mm - (IstOffsetMinutes \div 60) * 60
    IN  [day |-> abs \div 1440, hh |-> (abs % 1440) \div 60,
         mm |-> abs % 60, ss |-> 0]

\* start_dt - ist_offset, formatted "%Y-%m-%dT%H:%M:%SZ": the UTC instant of
\* local clock time hh:mm on day d.
LocalToUtc(d, hh, mm) ==
    LET abs == d * 1440 + hh * 60 + mm - IstOffsetMinutes
    IN  [day |-> abs \div 1440, hh |-> (abs % 1440) \div 60,
         mm |-> abs % 60, ss |-> 0]

\* utc_time.astimezone(ist_timezone).strftime("%H:%M"): the local clock time
\* of a UTC instant; the date is dropped.
UtcToLocalHM(utcMin) ==
    LET loc == (utcMin + IstOffsetMinutes) % 1440
    IN  FormatHM(loc \div 60, loc % 60)

\* CalClient._add_minutes_to_time: parse HH:MM, add, format HH:MM; a string
\* that does not parse comes back unchanged.
add_minutes_to_time(time_str, minutes) ==
    LET p == Strptime(time_str)
        t == (p.h * 60 + p.m + minutes) % 1440
    IN  IF p.ok THEN FormatHM(t \div 60, t % 60) ELSE time_str

\* ------------------------------------------------ name derivation ----
LowerCase == <<"a", "b", "c", "d", "e", "h", "j", "m", "n", "o", "x">>
UpperCase == <<"A", "B", "C", "D", "E", "H", "J", "M", "N", "O", "X">>

IsLower(c) == \E i \in 1..Len(LowerCase) : LowerCase[i] = c
IsUpper(c) == \E i \in 1..Len(UpperCase) : UpperCase[i] = c
IsCased(c) == IsLower(c) \/ IsUpper(c)

ToUpper(c) ==
    IF IsLower(c)
    THEN UpperCase[CHOOSE i \in 1..Len(LowerCase) : LowerCase[i] = c]
    ELSE c

ToLower(c) ==
    IF IsUpper(c)
    THEN LowerCase[CHOOSE i \in 1..Len(UpperCase) : UpperCase[i] = c]
    ELSE c

\* email_id.split('@')[0]: the text before the first "@" (all of it when
\* there is none).
LocalPart(email) ==
    IF \E k \in 1..Len(email) : email[k] = "@"
    THEN SubSeq(email, 1,
                (CHOOSE j \in 1..Len(email) :
                    email[j] = "@" /\ \A i \in 1..(j - 1) : email[i] # "@") - 1)
    ELSE email

\* str.title(): a cased character is upper-cased after an uncased one (or
\* at the start) and lower-cased after a cased one.
Title(s) ==
    [i \in 1..Len(s) |->
        IF i > 1 /\ IsCased(s[i - 1]) THEN ToLower(s[i]) ELSE ToUpper(s[i])]

\* Mutant of derive_name_from_email: str.capitalize() in place of
\* str.title(), so only the first character is upper-cased.
derive_name_capitalize(email) ==
    LET name_part == LocalPart(email)
    IN  [i \in 1..Len(name_part) |->
            IF name_part[i] = "." THEN " "
            ELSE IF i = 1 THEN ToUpper(name_part[i])
            ELSE ToLower(name_part[i])]

\* CalClient._derive_name_from_email
derive_name_from_email(email) ==
    LET name_part == LocalPart(email)
        spaced == [i \in 1..Len(name_part) |->
                      IF name_part[i] = "." THEN " " ELSE name_part[i]]
    IN  Title(spaced)

\* ------------------------------------------------- provider data ----
\* Event types the provider may list.
PersonalDemo == [id |-> 11, slug |-> ConfiguredSlug, length |-> 30, teamId |-> None]
TeamDemo == [id |-> 22, slug |-> ConfiguredSlug, length |-> 60, teamId |-> TeamId]
TeamDemoNoLength == [id |-> 44, slug |-> ConfiguredSlug, length |-> None, teamId |-> TeamId]
IntroCall == [id |-> 33, slug |-> "intro-call", length |-> 15, teamId |-> None]
NoEventType == [id |-> None, slug |-> Absent, length |-> None, teamId |-> None]

\* What the provider holds: the actor's identifier (GET /me), the
\* eventTypeGroups of GET /event-types (personal groups have teamId None) and
\* the event types a team-scoped listing would show.
ProviderData ==
    { [userId |-> 7001,
       allVisible |-> <<[teamId |-> None, eventTypes |-> <<IntroCall, PersonalDemo>>]>>,
       teamScoped |-> <<>>],
      [userId |-> 7001,
       allVisible |-> <<[teamId |-> None, eventTypes |-> <<IntroCall>>],
                        [teamId |-> TeamId, eventTypes |-> <<TeamDemo>>]>>,
       teamScoped |-> <<TeamDemo>>],
      [userId |-> 7001,
       allVisible |-> <<[teamId |-> TeamId, eventTypes |-> <<TeamDemoNoLength>>]>>,
       teamScoped |-> <<TeamDemoNoLength>>],
      [userId |-> 7001,
       allVisible |-> <<[teamId |-> None, eventTypes |-> <<IntroCall>>]>>,
       teamScoped |-> <<TeamDemo>>],
      [userId |-> 7001,
       allVisible |-> <<>>,
       teamScoped |-> <<>>] }

\* How a remote call can end: an HTTP answer with the success status, one
\* with another status, or no answer (network error, timeout).
Transports == {"ok", "http_error", "exception"}

\* Answers to GET /me: the body's status and the id in its data.
MeResponses(p) ==
    { [transport |-> "exception", status |-> Absent, id |-> None],
      [transport |-> "http_error", status |-> Absent, id |-> None],
      [transport |-> "ok", status |-> "error", id |-> None],
      [transport |-> "ok", status |-> "success", id |-> None],
      [transport |-> "ok", status |-> "success", id |-> p.userId] }

\* One entry of the slot list of the requested date: a dict whose "time" is
\* a UTC instant "...THH:MM:00.000Z" (min is its minute of the day), a string
\* with a "T" that is no ISO instant (tail is what follows the "T", cut to
\* five characters), a string without "T", an empty or missing "time", or an
\* entry that is no dict.
SlotEntries ==
    { [kind |-> "utc", min |-> 270, tail |-> <<>>],
      [kind |-> "utc", min |-> 1095, tail |-> <<>>],
      [kind |-> "bad_iso", min |-> 0, tail |-> <<"2", "5", ":", "0", "0">>],
      [kind |-> "no_T", min |-> 0, tail |-> <<>>],
      [kind |-> "empty", min |-> 0, tail |-> <<>>],
      [kind |-> "not_dict", min |-> 0, tail |-> <<>>] }

RECURSIVE SeqsUpTo(_, _)
SeqsUpTo(S, n) ==
    IF n = 0 THEN {<<>>}
    ELSE LET shorter == SeqsUpTo(S, n - 1)
         IN  shorter \cup {Append(q, x) : q \in shorter, x \in S}

\* Answers to the slots GET.
SlotsResponses ==
    { [transport |-> "exception", slots |-> <<>>],
      [transport |-> "http_error", slots |-> <<>>] }
    \cup { [transport |-> "ok", slots |-> q] : q \in SeqsUpTo(SlotEntries, MaxSlots) }

\* Answers to the create-booking POST. status 201 is the provider's
\* "created"; uid is the booking identifier in data (Absent: no uid). In a
\* decline, message is the body's top-level message (as words; <<>>: no
\* message key) and error says what the body's "error" key holds: nothing, a
\* dict with a code, a dict without one, or a string. json FALSE is a body
\* that is no JSON.
BookingResponses ==
    { [transport |-> "exception", status |-> 0, json |-> FALSE, uid |-> Absent,
       message |-> <<>>, error |-> "absent"],
      [transport |-> "ok", status |-> 201, json |-> TRUE, uid |-> "bk-A",
       message |-> <<>>, error |-> "absent"],
      [transport |-> "ok", status |-> 201, json |-> TRUE, uid |-> "bk-B",
       message |-> <<>>, error |-> "absent"],
      [transport |-> "ok", status |-> 201, json |-> TRUE, uid |-> Absent,
       message |-> <<>>, error |-> "absent"],
      [transport |-> "http_error", status |-> 400, json |-> TRUE, uid |-> Absent,
       message |-> <<NoUsersToken>>, error |-> "dict_code"],
      [transport |-> "http_error", status |-> 400, json |-> TRUE, uid |-> Absent,
       message |-> <<NoUsersToken>>, error |-> "string"],
      [transport |-> "http_error", status |-> 400, json |-> TRUE, uid |-> Absent,
       message |-> <<"Booking failed: ", NoUsersToken>>, error |-> "absent"],
      [transport |-> "http_error", status |-> 500, json |-> TRUE, uid |-> Absent,
       message |-> <<"Internal server error">>, error |-> "dict_code"],
      [transport |-> "http_error", status |-> 400, json |-> TRUE, uid |-> Absent,
       message |-> <<>>, error |-> "dict_nocode"],
      [transport |-> "http_error", status |-> 502, json |-> FALSE, uid |-> Absent,
       message |-> <<>>, error |-> "absent"] }

\* ------------------------------------------------ request inputs ----
\* Yesterday and today: the two sides of the past-date test.
Dates == {Today - 1, Today}

\* Time values a book-appointment webhook request may carry.
WebhookTimes ==
    { <<"1", "4", ":", "0", "0">>, <<"0", "0", ":", "1", "5">>,
      <<"9", ":", "0", "5">>, <<"9", ":", "5">>,
      <<"2", "4", ":", "0", "0">>, <<"1", "4", "0", "0">> }

\* Time values a direct CalClient.book_appointment call may carry.
ClientTimes ==
    { <<"1", "4", ":", "0", "0">>, <<"0", "0", ":", "1", "5">>,
      <<"9", ":", "0", "5">>, <<"0", "5", ":", "2", "9">>,
      <<"0", "5", ":", "3", "0">> }

Emails ==
    { <<"j", "o", "h", "n", ".", "d", "o", "e", "@", "a", ".", "b">>,
      <<"j", "a", "n", "e", ".", "d", "o", "e", "@", "x", ".", "c", "o", "m">>,
      <<"a", ".", "b", ".", "c", "@", "x", ".", "c", "o", "m">>,
      <<"J", ".", "D", "O", "E", "@", "x", ".", "c", "o", "m">> }

\* The (time, email_id) pairs a direct CalClient.book_appointment call may
\* carry: every time and every email above, not every combination.
ClientInputs ==
    { [time |-> <<"1", "4", ":", "0", "0">>,
       email_id |-> <<"j", "o", "h", "n", ".", "d", "o", "e", "@", "a", ".", "b">>],
      [time |-> <<"0", "0", ":", "1", "5">>,
       email_id |-> <<"j", "a", "n", "e", ".", "d", "o", "e", "@", "x", ".", "c", "o", "m">>],
      [time |-> <<"9", ":", "0", "5">>,
       email_id |-> <<"j", "o", "h", "n", ".", "d", "o", "e", "@", "a", ".", "b">>],
      [time |-> <<"0", "5", ":", "2", "9">>,
       email_id |-> <<"a", ".", "b", ".", "c", "@", "x", ".", "c", "o", "m">>],
      [time |-> <<"0", "5", ":", "3", "0">>,
       email_id |-> <<"J", ".", "D", "O", "E", "@", "x", ".", "c", "o", "m">>] }

\* candidate_name of a webhook request.
CandidateNames == { <<"J", "o", "h", "n">> }

\* ---------------------------------------------------------- state ----
VARIABLES
    user_id,    \* CalClient.user_id, the cached actor identifier (None: unset)
    provider,   \* what the remote provider holds
    req,        \* per coroutine: the request it serves and where it stands
    received    \* requests received so far

vars == <<user_id, provider, req, received>>

\* ------------------------------------------------ results, errors ----
NoValue == [type |-> "none"]

\* The client method was not entered, returned a value, or raised.
NotCalled == [state |-> "not_called", error |-> <<>>, value |-> NoValue]
Returned(v) == [state |-> "returned", error |-> <<>>, value |-> v]
Raised(msg) == [state |-> "raised", error |-> msg, value |-> NoValue]

\* The webhook's HTTP answer: 200 with a body, or an HTTPException.
NoResponse == [status |-> 0, detail |-> <<>>, body |-> NoValue]
HttpOk(b) == [status |-> 200, detail |-> <<>>, body |-> b]
HttpError(code, msg) == [status |-> code, detail |-> msg, body |-> NoValue]

NoResp == [transport |-> "none"]

IdleReq ==
    [pc |-> "idle", layer |-> "none", op |-> "none",
     target_date |-> 0, time |-> <<>>, email_id |-> <<>>,
     local_user_id |-> None, et_transport |-> "none",
     event_type |-> NoEventType, calls |-> <<>>, resp |-> NoResp,
     client |-> NotCalled, response |-> NoResponse]

NewReq(layer, op, d, t, e) ==
    [IdleReq EXCEPT !.layer = layer, !.op = op, !.target_date = d,
                    !.time = t, !.email_id = e]

Call(kind, args) == [kind |-> kind, args |-> args]

NoArgs == [none |-> TRUE]

\* ---------------------------------------------- webhook validation ----
\* Mutant of PastDate: the comparison is off by one day.
PastDateOffByOne(d) == d < Today - 1

\* request.target_date < date.today()
PastDate(d) == d < Today

\* datetime.strptime(request.time, "%H:%M") does not raise.
TimeFormatAccepted(t) == Strptime(t).ok

\* Keyword names main.book_appointment passes, and the parameters
\* CalClient.book_appointment declares (none has a default): the call binds
\* only if every keyword is a parameter and every parameter is given.
BookKeywords == {"appointment_date", "appointment_time", "candidate_name"}
BookParameters == {"target_date", "time", "email_id"}

BookCallBinds ==
    BookKeywords \subseteq BookParameters /\ BookParameters \subseteq BookKeywords

\* -------------------------------------------------- actor identity ----
\* CalClient._get_user_id after the answer to GET /me: the id it returns
\* (and caches), or None.
FetchedUserId(resp) ==
    IF resp.transport = "ok" /\ resp.status = "success" /\ Truthy(resp.id)
    THEN resp.id
    ELSE None

\* ------------------------------------------- event-type resolution ----
RECURSIVE Flatten(_)
Flatten(groups) ==
    IF groups = <<>> THEN <<>>
    ELSE Head(groups).eventTypes \o Flatten(Tail(groups))

NotFoundError ==
    <<"Failed to get event type details: ", "Event type '", ConfiguredSlug,
      "' not found">>

\* Mutant of get_event_type: a placeholder descriptor instead of the error.
get_event_type_default(transport, p) ==
    LET event_types == IF transport = "ok" THEN Flatten(p.allVisible) ELSE <<>>
        hits == {i \in 1..Len(event_types) : event_types[i].slug = ConfiguredSlug}
    IN  IF hits # {}
        THEN [found |-> TRUE,
              event_type |-> event_types[CHOOSE i \in hits : \A j \in hits : i <= j],
              error |-> <<>>]
        ELSE [found |-> TRUE,
              event_type |-> [id |-> 1, slug |-> ConfiguredSlug,
                              length |-> DefaultLength, teamId |-> None],
              error |-> <<>>]

\* Mutant of get_event_type: the team-scoped listing is searched when the
\* all-visible listing has no match.
get_event_type_team_fallback(transport, p) ==
    LET event_types ==
            IF transport = "ok" THEN Flatten(p.allVisible) \o p.teamScoped ELSE <<>>
        hits == {i \in 1..Len(event_types) : event_types[i].slug = ConfiguredSlug}
    IN  IF hits # {}
        THEN [found |-> TRUE,
              event_type |-> event_types[CHOOSE i \in hits : \A j \in hits : i <= j],
              error |-> <<>>]
        ELSE [found |-> FALSE, event_type |-> NoEventType, error |-> NotFoundError]

\* CalClient._get_event_type after the answer to GET /event-types: the first
\* listed event type, personal or team, whose slug is the configured one;
\* any other outcome raises.
get_event_type(transport, p) ==
    LET event_types == IF transport = "ok" THEN Flatten(p.allVisible) ELSE <<>>
        hits == {i \in 1..Len(event_types) : event_types[i].slug = ConfiguredSlug}
    IN  IF hits # {}
        THEN [found |-> TRUE,
              event_type |-> event_types[CHOOSE i \in hits : \A j \in hits : i <= j],
              error |-> <<>>]
        ELSE [found |-> FALSE, event_type |-> NoEventType, error |-> NotFoundError]

\* event_type.get('length', 30)
LengthOf(et) == IF et.length = None THEN DefaultLength ELSE et.length

\* --------------------------------------------------- slot translator ----
\* The slots GET of CalClient.check_availability: the team branch asks
\* /slots/available for 03:30:00Z-11:30:00Z with the duration, the personal
\* branch asks the event type's availability for 00:00:00Z-23:59:59Z.
SlotsQuery(et, d) ==
    IF Truthy(et.teamId)
    THEN Call("GET /slots/available",
              [eventTypeId |-> et.id, eventTypeSlug |-> et.slug,
               startTime |-> [day |-> d, hh |-> 3, mm |-> 30, ss |-> 0],
               endTime |-> [day |-> d, hh |-> 11, mm |-> 30, ss |-> 0],
               duration |-> LengthOf(et)])
    ELSE Call("GET /event-types/{id}/availability",
              [eventTypeId |-> et.id, eventTypeSlug |-> Absent,
               startTime |-> [day |-> d, hh |-> 0, mm |-> 0, ss |-> 0],
               endTime |-> [day |-> d, hh |-> 23, mm |-> 59, ss |-> 59],
               duration |-> None])

Slot(start) ==
    [start_time |-> start, end_time |-> add_minutes_to_time(start, SlotMinutes),
     available |-> TRUE]

\* The slots one entry of the date's list adds.
SlotsOfEntry(e) ==
    IF e.kind = "utc" THEN <<Slot(UtcToLocalHM(e.min))>>
    ELSE IF e.kind = "bad_iso" THEN <<Slot(e.tail)>>
    ELSE <<>>

RECURSIVE ConvertSlots(_)
ConvertSlots(entries) ==
    IF entries = <<>> THEN <<>>
    ELSE SlotsOfEntry(Head(entries)) \o ConvertSlots(Tail(entries))

\* Mutant of process_real_availability: an empty result is replaced by the
\* default business hours, half-hour slots from 09:00 to 17:00.
process_real_availability_business_hours(entries) ==
    LET slots == IF \E i \in 1..Len(entries) : entries[i].kind = "not_dict"
                 THEN <<>>
                 ELSE ConvertSlots(entries)
    IN  IF slots = <<>>
        THEN [i \in 1..16 |-> Slot(FormatHM(9 + (i - 1) \div 2, 30 * ((i - 1) % 2)))]
        ELSE slots

\* CalClient._process_real_availability on the date's slot list: the entries
\* in the provider's order; an entry that is no dict raises out of the loop
\* and the whole result is the empty list.
process_real_availability(entries) ==
    IF \E i \in 1..Len(entries) : entries[i].kind = "not_dict"
    THEN <<>>
    ELSE ConvertSlots(entries)

CheckKeys ==
    <<"success", "target_date", "available_slots", "formatted_response", "message">>

\* What CalClient.check_availability does with the answer to the slots GET.
CheckOutcome(resp, et, d) ==
    IF resp.transport = "ok"
    THEN Returned([type |-> "dict", keys |-> CheckKeys, success |-> TRUE,
                   target_date |-> d,
                   available_slots |-> process_real_availability(resp.slots)])
    ELSE IF resp.transport = "http_error"
    THEN Raised(<<"Failed to check availability: ",
                  IF Truthy(et.teamId)
                  THEN "Failed to check team availability: HTTP "
                  ELSE "Failed to check personal availability: HTTP ">>)
    ELSE Raised(<<"Failed to check availability: ", "transport error">>)

\* ------------------------------------------------ booking translator ----
\* booking_data of CalClient.book_appointment.
BookingData(et, d, clock, email) ==
    [start |-> LocalToUtc(d, clock.h, clock.m),
     name |-> derive_name_from_email(email), email |-> email,
     eventTypeId |-> et.id, eventTypeSlug |-> et.slug]

NoAssigneeAvailable ==
    "No team members available for this time slot. Please check team member availability or contact your administrator."
NoAssigneeAssigned ==
    "No team members are assigned to this event type. Please contact your administrator to assign team members."

Contains(msg, token) == \E i \in 1..Len(msg) : msg[i] = token

\* What CalClient.book_appointment does with the answer to the POST.
BookingOutcome(resp) ==
    IF resp.transport = "exception"
    THEN Raised(<<"Failed to book appointment: ", "transport error">>)
    ELSE IF ~resp.json
    THEN Raised(<<"Failed to book appointment: ", "JSONDecodeError">>)
    ELSE IF resp.status = 201
    THEN Returned([type |-> "dict", success |-> TRUE,
                   booking_id |-> IF resp.uid = Absent THEN "unknown" ELSE resp.uid])
    ELSE LET error_message ==
                 IF resp.message = <<>> THEN <<"Unknown error">> ELSE resp.message
             error_code ==
                 IF resp.error = "dict_code" THEN "BadRequestException" ELSE "Unknown"
         IN  IF resp.error = "string"
             THEN Raised(<<"Failed to book appointment: ",
                           "'str' object has no attribute 'get'">>)
             ELSE IF error_message = <<NoUsersToken>>
             THEN Raised(<<"Failed to book appointment: ", NoAssigneeAvailable>>)
             ELSE IF Contains(error_message, NoUsersToken)
             THEN Raised(<<"Failed to book appointment: ", NoAssigneeAssigned>>)
             ELSE Raised(<<"Failed to book appointment: ", "Cal.com API v2 error: ">>
                         \o error_message \o <<" (Code: ", error_code, ")">>)

\* ------------------------------------------------ webhook handlers ----
\* The items main.check_availability's loop "for slot in available_slots"
\* visits and subscripts with "start_time": iterating a dict visits its keys,
\* which are strings, and subscripting a string with a string raises
\* TypeError; a list of slot dicts converts item by item.
CheckResponse(result, d) ==
    IF result.state = "raised"
    THEN HttpError(500, <<"Failed to check availability: ">> \o result.error)
    ELSE IF result.value.type = "dict"
    THEN IF Len(result.value.keys) > 0
         THEN HttpError(500, <<"Failed to check availability: ",
                               "string indices must be integers">>)
         ELSE HttpOk([success |-> TRUE, target_date |-> d, available_slots |-> <<>>])
    ELSE HttpOk([success |-> TRUE, target_date |-> d,
                 available_slots |-> result.value.items])

\* The end of main.book_appointment once the client call is over.
BookResponse(result) ==
    IF result.state = "raised"
    THEN HttpError(500, <<"Failed to book appointment: ">> \o result.error)
    ELSE HttpOk([success |-> TRUE, booking_id |-> result.value.booking_id])

\* The request is over: the client's result and, for a webhook request, the
\* handler's answer built from it.
Finish(r, result) ==
    [r EXCEPT !.pc = "done", !.client = result,
              !.response = IF r.layer # "webhook" THEN NoResponse
                           ELSE IF r.op = "check"
                           THEN CheckResponse(result, r.target_date)
                           ELSE BookResponse(result)]

Reject(r, code, msg) == [r EXCEPT !.pc = "done", !.response = HttpError(code, msg)]

Send(r, call, pc) == [r EXCEPT !.pc = pc, !.calls = Append(@, call)]

\* CalClient._get_event_type up to its await: the GET of /event-types.
StartGetEventType(r) == Send(r, Call("GET /event-types", NoArgs), "await_event_types")

\* Mutant of StartBook: the cached id is not looked at.
StartBookRefetch(r, cached) == Send(r, Call("GET /me", NoArgs), "await_me")

\* CalClient.book_appointment up to its first await: _get_user_id returns
\* the cached id at once, or sends GET /me.
StartBook(r, cached) ==
    IF Truthy(cached)
    THEN StartGetEventType([r EXCEPT !.local_user_id = cached])
    ELSE Send(r, Call("GET /me", NoArgs), "await_me")

\* CalClient.check_availability from the resolved event type to the slots GET.
ContinueCheck(r, et) ==
    IF ~Truthy(et.id)
    THEN Finish(r, Raised(<<"Failed to check availability: ",
                            "Event type ID not found">>))
    ELSE Send([r EXCEPT !.event_type = et], SlotsQuery(et, r.target_date),
              "await_slots")

\* Mutant of ContinueBook: a booking whose create-booking call some request
\* has already sent is answered without a call of its own.
ContinueBookDedup(r, et) ==
    LET clock == FromIsoClock(r.time)
    IN  IF ~clock.ok
        THEN Finish([r EXCEPT !.event_type = et],
                    Raised(<<"Failed to book appointment: ",
                             "Invalid isoformat string">>))
        ELSE IF et.id = None
        THEN Finish([r EXCEPT !.event_type = et],
                    Raised(<<"Failed to book appointment: ", "'id'">>))
        ELSE LET call == Call("POST /bookings",
                              BookingData(et, r.target_date, clock, r.email_id))
             IN  IF \E g \in Handlers : \E i \in 1..Len(req[g].calls) :
                        req[g].calls[i] = call
                 THEN Finish([r EXCEPT !.event_type = et],
                             Returned([type |-> "dict", success |-> TRUE,
                                       booking_id |-> "unknown"]))
                 ELSE Send([r EXCEPT !.event_type = et], call, "await_bookings")

\* CalClient.book_appointment from the resolved event type to the POST.
ContinueBook(r, et) ==
    LET clock == FromIsoClock(r.time)
    IN  IF ~clock.ok
        THEN Finish([r EXCEPT !.event_type = et],
                    Raised(<<"Failed to book appointment: ",
                             "Invalid isoformat string">>))
        ELSE IF et.id = None
        THEN Finish([r EXCEPT !.event_type = et],
                    Raised(<<"Failed to book appointment: ", "'id'">>))
        ELSE Send([r EXCEPT !.event_type = et],
                  Call("POST /bookings",
                       BookingData(et, r.target_date, clock, r.email_id)),
                  "await_bookings")

\* --------------------------------------------------------- actions ----
\* A coroutine can take a request when it serves none; the coroutines are
\* interchangeable, so the first request of a run is given to h1.
Free(h) ==
    /\ req[h].pc \in {"idle", "done"}
    /\ received < MaxRequests
    /\ h # "h1" => received > 0

\* Coroutine h moves to r. The record of a finished request is what the
\* caller was answered; it is kept until the next request finishes.
Step(h, r) ==
    [g \in Handlers |->
        IF g = h THEN r
        ELSE IF r.pc = "done" /\ req[g].pc = "done" THEN IdleReq
        ELSE req[g]]

\* POST /webhook/check-availability arrives: main.check_availability up to
\* the first await (or to its end).
ReceiveCheck(h, d) ==
    /\ Free(h)
    /\ received' = received + 1
    /\ LET r == NewReq("webhook", "check", d, <<>>, <<>>)
       IN  req' = Step(h, IF PastDate(d)
                          THEN Reject(r, 400, <<"Cannot check availability for past dates">>)
                          ELSE StartGetEventType(r))
    /\ UNCHANGED <<user_id, provider>>

\* POST /webhook/book-appointment arrives: main.book_appointment up to the
\* first await (or to its end).
ReceiveBook(h, d, t, n) ==
    /\ Free(h)
    /\ received' = received + 1
    /\ LET r == NewReq("webhook", "book", d, t, n)
       IN  req' = Step(h,
                  IF PastDate(d)
                  THEN Reject(r, 400, <<"Cannot book appointments for past dates">>)
                  ELSE IF ~TimeFormatAccepted(t)
                  THEN Reject(r, 400, <<"Invalid time format. Please use HH:MM format (e.g., 14:30)">>)
                  ELSE IF ~BookCallBinds
                  THEN Reject(r, 500, <<"Failed to book appointment: ",
                                        "book_appointment() got an unexpected keyword argument">>)
                  ELSE StartBook(r, user_id))
    /\ UNCHANGED <<user_id, provider>>

\* CalClient.book_appointment(target_date, time, email_id) is called with
\* its own parameters.
CallBook(h, d, t, e) ==
    /\ Free(h)
    /\ received' = received + 1
    /\ req' = Step(h, StartBook(NewReq("client", "book", d, t, e), user_id))
    /\ UNCHANGED <<user_id, provider>>

\* Mutant of MeResponse: a failed fetch ends the booking with an error.
MeResponseFatal(h, resp) ==
    /\ req[h].pc = "await_me"
    /\ LET id == FetchedUserId(resp)
       IN  /\ user_id' = IF id # None THEN id ELSE user_id
           /\ req' = Step(h, IF id = None
                             THEN Finish(req[h], Raised(<<"Failed to book appointment: ",
                                                          "Failed to get user ID">>))
                             ELSE StartGetEventType([req[h] EXCEPT !.local_user_id = id]))
    /\ UNCHANGED <<provider, received>>

\* Mutant of MeResponse: the cache is assigned whatever the fetch yields, so
\* a failed fetch unsets it.
MeResponseClears(h, resp) ==
    /\ req[h].pc = "await_me"
    /\ LET id == FetchedUserId(resp)
       IN  /\ user_id' = id
           /\ req' = Step(h, StartGetEventType([req[h] EXCEPT !.local_user_id = id]))
    /\ UNCHANGED <<provider, received>>

\* The answer to GET /me arrives: the rest of _get_user_id, then
\* _get_event_type up to its GET.
MeResponse(h, resp) ==
    /\ req[h].pc = "await_me"
    /\ LET id == FetchedUserId(resp)
       IN  /\ user_id' = IF id # None THEN id ELSE user_id
           /\ req' = Step(h, StartGetEventType([req[h] EXCEPT !.local_user_id = id]))
    /\ UNCHANGED <<provider, received>>

\* Mutant of EventTypesResponse: a listing that yields no event type
\* invalidates the cached actor identifier.
EventTypesResponseInvalidates(h, transport) ==
    /\ req[h].pc = "await_event_types"
    /\ LET r == [req[h] EXCEPT !.et_transport = transport]
           res == get_event_type(transport, provider)
       IN  /\ req' = Step(h,
                      IF ~res.found
                      THEN Finish(r, Raised(<<IF r.op = "check"
                                              THEN "Failed to check availability: "
                                              ELSE "Failed to book appointment: ">>
                                            \o res.error))
                      ELSE IF r.op = "check"
                      THEN ContinueCheck(r, res.event_type)
                      ELSE ContinueBook(r, res.event_type))
           /\ user_id' = IF res.found THEN user_id ELSE None
    /\ UNCHANGED <<provider, received>>

\* The answer to GET /event-types arrives: the rest of _get_event_type, then
\* the caller up to its next remote call.
EventTypesResponse(h, transport) ==
    /\ req[h].pc = "await_event_types"
    /\ LET r == [req[h] EXCEPT !.et_transport = transport]
           res == get_event_type(transport, provider)
       IN  req' = Step(h,
                  IF ~res.found
                  THEN Finish(r, Raised(<<IF r.op = "check"
                                          THEN "Failed to check availability: "
                                          ELSE "Failed to book appointment: ">>
                                        \o res.error))
                  ELSE IF r.op = "check"
                  THEN ContinueCheck(r, res.event_type)
                  ELSE ContinueBook(r, res.event_type))
    /\ UNCHANGED <<user_id, provider, received>>

\* Mutant of SlotsResponse: a failed slots GET is sent once more.
SlotsResponseRetry(h, resp) ==
    /\ req[h].pc = "await_slots"
    /\ req' = Step(h,
                  IF resp.transport # "ok" /\ Len(req[h].calls) < 3
                  THEN Send(req[h], SlotsQuery(req[h].event_type, req[h].target_date),
                            "await_slots")
                  ELSE Finish([req[h] EXCEPT !.resp = resp],
                              CheckOutcome(resp, req[h].event_type, req[h].target_date)))
    /\ UNCHANGED <<user_id, provider, received>>

\* The answer to the slots GET arrives: the rest of check_availability and
\* of the webhook handler.
SlotsResponse(h, resp) ==
    /\ req[h].pc = "await_slots"
    /\ req' = Step(h, Finish([req[h] EXCEPT !.resp = resp],
                            CheckOutcome(resp, req[h].event_type, req[h].target_date)))
    /\ UNCHANGED <<user_id, provider, received>>

\* The answer to POST /bookings arrives (or its 30 s timeout expires): the
\* rest of book_appointment and of its caller.
BookingsResponse(h, resp) ==
    /\ req[h].pc = "await_bookings"
    /\ req' = Step(h, Finish([req[h] EXCEPT !.resp = resp], BookingOutcome(resp)))
    /\ UNCHANGED <<user_id, provider, received>>

Init ==
    /\ user_id = None
    /\ provider \in ProviderData
    /\ req = [h \in Handlers |-> IdleReq]
    /\ received = 0

Next ==
    \/ \E h \in Handlers, d \in Dates : ReceiveCheck(h, d)
    \/ \E h \in Handlers, d \in Dates, t \in WebhookTimes, n \in CandidateNames :
           ReceiveBook(h, d, t, n)
    \/ \E h \in Handlers, b \in ClientInputs :
           CallBook(h, Today, b.time, b.email_id)
    \/ \E h \in Handlers, resp \in MeResponses(provider) : MeResponse(h, resp)
    \/ \E h \in Handlers, transport \in Transports : EventTypesResponse(h, transport)
    \/ \E h \in Handlers, resp \in SlotsResponses : SlotsResponse(h, resp)
    \/ \E h \in Handlers, resp \in BookingResponses : BookingsResponse(h, resp)

Spec == Init /\ [][Next]_vars

\* ============================================================ claims ====
Done(h) == req[h].pc = "done"

\* Number of remote calls of one kind a request has sent.
CallCount(r, kinds) == Cardinality({i \in 1..Len(r.calls) : r.calls[i].kind \in kinds})

SlotsKinds == {"GET /slots/available", "GET /event-types/{id}/availability"}

\* Coroutine g sends the named call in this step.
SendsMe(g) == req[g].pc # "await_me" /\ req'[g].pc = "await_me"
SendsListing(g) == req[g].pc # "await_event_types" /\ req'[g].pc = "await_event_types"

\* The all-visible listing holds an event type with the configured slug.
ListedAllVisible ==
    \E i \in 1..Len(provider.allVisible) :
        \E j \in 1..Len(provider.allVisible[i].eventTypes) :
            provider.allVisible[i].eventTypes[j].slug = ConfiguredSlug

ListedTeamScoped ==
    \E j \in 1..Len(provider.teamScoped) : provider.teamScoped[j].slug = ConfiguredSlug

\* ---- C1 ----
\* C1: a webhook request (check-availability or book-appointment) whose
\* target_date is before today is over as soon as it is received, answered
\* 400, and has sent no remote call.
C1_PastDateRejected ==
    \A h \in Handlers :
        (req[h].layer = "webhook" /\ req[h].target_date < Today)
            => /\ Done(h)
               /\ req[h].response.status = 400
               /\ req[h].calls = <<>>
               /\ req[h].client.state = "not_called"

\* A book-appointment webhook request for yesterday has been answered.
C1_Witness ==
    \E h \in Handlers :
        /\ req[h].layer = "webhook" /\ req[h].op = "book"
        /\ req[h].target_date = Today - 1
        /\ Done(h) /\ req[h].response.status = 400

\* ---- C2 ----
\* C2: a book-appointment webhook request for a non-past date at 14:00,
\* against a provider whose event type resolves with duration 30 and with no
\* remote call failing, sends exactly one create-booking call whose start is
\* the date at 08:30:00Z and is answered 200 with the provider's uid as
\* booking_id.
C2_EndToEndBooking ==
    \A h \in Handlers :
        ( /\ req[h].layer = "webhook" /\ req[h].op = "book" /\ Done(h)
          /\ req[h].target_date >= Today
          /\ req[h].time = <<"1", "4", ":", "0", "0">>
          /\ ListedAllVisible
          /\ req[h].et_transport \in {"none", "ok"}
          /\ req[h].resp.transport \in {"none", "ok"} )
            => /\ CallCount(req[h], {"POST /bookings"}) = 1
               /\ req[h].calls[Len(req[h].calls)].args.start
                      = [day |-> req[h].target_date, hh |-> 8, mm |-> 30, ss |-> 0]
               /\ req[h].response.status = 200
               /\ req[h].response.body.booking_id = req[h].resp.uid

\* ---- C3 ----
\* C3: a check-availability webhook request for a non-past date whose slots
\* call is answered with N parseable instants is answered 200 with exactly
\* the N slots the client produced, in their order, each available.
C3_EndToEndAvailability ==
    \A h \in Handlers :
        ( /\ req[h].layer = "webhook" /\ req[h].op = "check" /\ Done(h)
          /\ req[h].target_date >= Today
          /\ req[h].resp.transport = "ok"
          /\ \A i \in 1..Len(req[h].resp.slots) : req[h].resp.slots[i].kind = "utc" )
            => /\ req[h].response.status = 200
               /\ Len(req[h].response.body.available_slots) = Len(req[h].resp.slots)
               /\ req[h].response.body.available_slots
                      = req[h].client.value.available_slots
               /\ \A i \in 1..Len(req[h].response.body.available_slots) :
                      req[h].response.body.available_slots[i].available

\* ---- C4 ----
\* The 24-hour HH:MM syntax: two digits up to 23, a colon, two digits up to 59.
StrictHHMM(t) ==
    /\ Len(t) = 5 /\ t[3] = ":"
    /\ IsDigit(t[1]) /\ IsDigit(t[2]) /\ IsDigit(t[4]) /\ IsDigit(t[5])
    /\ 10 * DigitVal(t[1]) + DigitVal(t[2]) <= 23
    /\ 10 * DigitVal(t[4]) + DigitVal(t[5]) <= 59

\* C4: a book-appointment webhook request for a non-past date whose time is
\* not of the HH:MM syntax is over as soon as it is received, answered 400,
\* and has sent no remote call.
C4_TimeSyntaxEnforced ==
    \A h \in Handlers :
        ( /\ req[h].layer = "webhook" /\ req[h].op = "book"
          /\ req[h].target_date >= Today
          /\ ~StrictHHMM(req[h].time) )
            => /\ Done(h)
               /\ req[h].response.status = 400
               /\ req[h].calls = <<>>

\* ---- C5 ----
\* C5: when the create-booking call is answered with a non-success status
\* whose message carries no_available_users_found_error, the booking raises
\* an error that carries one of the two no-assignee remediation texts, and
\* the request has sent exactly one create-booking call.
C5_NoAssigneeSurfaced ==
    \A h \in Handlers :
        ( /\ req[h].op = "book" /\ Done(h)
          /\ req[h].resp.transport = "http_error" /\ req[h].resp.json
          /\ Contains(req[h].resp.message, NoUsersToken) )
            => /\ req[h].client.state = "raised"
               /\ \/ Contains(req[h].client.error, NoAssigneeAvailable)
                  \/ Contains(req[h].client.error, NoAssigneeAssigned)
               /\ CallCount(req[h], {"POST /bookings"}) = 1

\* ---- C6 ----
\* The listing a request got yields no event type with the configured slug.
NoMatch(r) ==
    /\ r.et_transport # "none"
    /\ r.et_transport # "ok" \/ ~ListedAllVisible

\* C6: when the listing yields no event type with the configured slug
\* (empty, no match, non-success status, transport error), the request is
\* over with an error that names the configured slug, no event type
\* descriptor is used, no further remote call is sent, and a webhook caller is
\* answered 500 with that error.
C6_NotFoundNamesSlug ==
    \A h \in Handlers :
        NoMatch(req[h])
            => /\ Done(h)
               /\ req[h].client.state = "raised"
               /\ Contains(req[h].client.error, ConfiguredSlug)
               /\ req[h].event_type = NoEventType
               /\ req[h].calls[Len(req[h].calls)].kind = "GET /event-types"
               /\ req[h].layer = "webhook"
                     => /\ req[h].response.status = 500
                        /\ Contains(req[h].response.detail, ConfiguredSlug)

\* A check-availability request got a listing with event types, none of
\* them with the configured slug, and has failed.
C6_Witness ==
    \E h \in Handlers :
        /\ req[h].op = "check" /\ Done(h)
        /\ req[h].et_transport = "ok" /\ provider.allVisible # <<>>
        /\ ~ListedAllVisible
        /\ req[h].client.state = "raised"

\* ---- C7 ----
\* C7 as stated: when the all-visible listing succeeds without a match and
\* the team-scoped listing holds the configured slug, resolution succeeds.
C7_TeamFallbackResolves ==
    \A h \in Handlers :
        ( /\ req[h].et_transport = "ok" /\ ~ListedAllVisible
          /\ ListedTeamScoped )
            => /\ req[h].event_type.slug = ConfiguredSlug
               /\ req[h].client.state # "raised"

\* C7 amended: in that case resolution fails with the not-found error naming
\* the slug, after the one GET of /event-types and no other remote call of
\* the resolver.
C7_SingleStrategy ==
    \A h \in Handlers :
        ( /\ req[h].et_transport = "ok" /\ ~ListedAllVisible
          /\ ListedTeamScoped )
            => /\ Done(h)
               /\ req[h].client.state = "raised"
               /\ Contains(req[h].client.error, ConfiguredSlug)
               /\ req[h].event_type = NoEventType
               /\ CallCount(req[h], {"GET /event-types"}) = 1
               /\ \A i \in 1..Len(req[h].calls) :
                      req[h].calls[i].kind \in {"GET /me", "GET /event-types"}

\* A request failed to resolve although the team-scoped listing holds the slug.
C7_Witness ==
    \E h \in Handlers :
        /\ Done(h) /\ req[h].et_transport = "ok"
        /\ ~ListedAllVisible /\ ListedTeamScoped
        /\ req[h].client.state = "raised"

\* ---- C8 ----
\* Some request in flight or just answered has resolved the event type.
Resolved == \E h \in Handlers : req[h].event_type # NoEventType

\* C8 as stated: once the actor identifier is cached and an event type was
\* resolved, no step sends an actor-identity call or an event-type listing
\* call.
C8_BothCached ==
    [][(Truthy(user_id) /\ Resolved)
          => \A g \in Handlers : ~SendsMe(g) /\ ~SendsListing(g)]_vars

\* C8 amended: once the actor identifier is cached, no step sends an
\* actor-identity call (the event type is listed again by every request).
C8_ActorIdCached ==
    [][Truthy(user_id) => \A g \in Handlers : ~SendsMe(g)]_vars

\* A booking that started with the identifier cached went straight to the
\* event-type listing.
C8_Witness ==
    \E h \in Handlers :
        /\ req[h].op = "book" /\ req[h].pc = "await_event_types"
        /\ Truthy(user_id)
        /\ req[h].calls = <<Call("GET /event-types", NoArgs)>>

\* ---- C9 ----
\* Each kind of remote call is sent at most once by a request.
AtMostOnce(r) ==
    /\ CallCount(r, {"GET /me"}) <= 1
    /\ CallCount(r, {"GET /event-types"}) <= 1
    /\ CallCount(r, SlotsKinds) <= 1
    /\ CallCount(r, {"POST /bookings"}) <= 1

\* The request's actor-identity fetch was answered and failed.
MeFailed(r) ==
    /\ CallCount(r, {"GET /me"}) = 1
    /\ r.pc # "await_me"
    /\ r.local_user_id = None

\* The request's listing, slots or create-booking call failed.
LaterCallFailed(r) ==
    \/ r.et_transport \in {"http_error", "exception"}
    \/ r.resp.transport \in {"http_error", "exception"}

\* The request is over with one failure, and its last call is the failed one.
EndsInFailure(r) ==
    /\ r.pc = "done"
    /\ r.client.state = "raised"
    /\ r.layer = "webhook" => r.response.status = 500

\* C9 as stated: each remote call is sent at most once per request, and
\* after any remote failure, the actor-identity fetch included, the request
\* ends with a failure.
C9_NoRetryAnyFailureFatal ==
    \A h \in Handlers :
        /\ AtMostOnce(req[h])
        /\ (Done(h) /\ (MeFailed(req[h]) \/ LaterCallFailed(req[h])))
              => EndsInFailure(req[h])

\* C9 amended: each remote call is sent at most once per request; a failed
\* listing, slots or create-booking call ends the request with a failure
\* and is the request's last call; a failed actor-identity fetch is not
\* repeated and the request goes on to the event-type listing.
C9_NoRetry ==
    \A h \in Handlers :
        /\ AtMostOnce(req[h])
        /\ LaterCallFailed(req[h])
              => /\ EndsInFailure(req[h])
                 /\ req[h].et_transport \in {"http_error", "exception"}
                       => req[h].calls[Len(req[h].calls)].kind = "GET /event-types"
                 /\ req[h].resp.transport \in {"http_error", "exception"}
                       => req[h].calls[Len(req[h].calls)].kind
                              \in SlotsKinds \cup {"POST /bookings"}
        /\ MeFailed(req[h])
              => /\ CallCount(req[h], {"GET /event-types"}) = 1
                 /\ req[h].calls[2].kind = "GET /event-types"

\* The create-booking call of a request timed out and the request failed.
C9_Witness ==
    \E h \in Handlers :
        /\ Done(h) /\ req[h].op = "book"
        /\ req[h].resp.transport = "exception"
        /\ req[h].client.state = "raised"
        /\ CallCount(req[h], {"POST /bookings"}) = 1

\* ---- C10 ----
\* Minute of the day of a clock string HH:MM.
MinuteOfDay(t) == Strptime(t).h * 60 + Strptime(t).m

\* C10: every slot produced from a provider instant ends at its local start
\* plus the duration of the resolved event type, taken around midnight.
C10_EndIsStartPlusDuration ==
    \A h \in Handlers :
        ( /\ req[h].op = "check" /\ Done(h)
          /\ req[h].client.state = "returned"
          /\ \A i \in 1..Len(req[h].resp.slots) : req[h].resp.slots[i].kind = "utc" )
            => \A i \in 1..Len(req[h].client.value.available_slots) :
                   LET s == req[h].client.value.available_slots[i]
                   IN  MinuteOfDay(s.end_time)
                          = (MinuteOfDay(s.start_time) + LengthOf(req[h].event_type)) % 1440

\* ---- C11 ----
\* The request has sent its create-booking call.
HasPost(r) == CallCount(r, {"POST /bookings"}) = 1

\* The start instant of the create-booking call the request sent.
PostStart(r) ==
    r.calls[CHOOSE i \in 1..Len(r.calls) : r.calls[i].kind = "POST /bookings"].args.start

\* C11: for a booking whose time is a valid HH:MM, the start instant of the
\* create-booking call, converted back as the slot translator converts a
\* provider instant, reads the original HH:MM; a time before 05:30 has its
\* instant on the previous day, any other on the day itself.
C11_RoundTrip ==
    \A h \in Handlers :
        (HasPost(req[h]) /\ StrictHHMM(req[h].time))
            => LET start == PostStart(req[h])
               IN  /\ UtcToLocalHM(start.hh * 60 + start.mm) = req[h].time
                   /\ start.day = IF MinuteOfDay(req[h].time) < IstOffsetMinutes
                                  THEN req[h].target_date - 1
                                  ELSE req[h].target_date

\* A booking at 05:29 was sent with its instant at 23:59 of the day before.
C11_Witness ==
    \E h \in Handlers :
        /\ HasPost(req[h])
        /\ req[h].time = <<"0", "5", ":", "2", "9">>
        /\ PostStart(req[h]) = [day |-> req[h].target_date - 1, hh |-> 23,
                                 mm |-> 59, ss |-> 0]

\* ---- C12 ----
\* The check-availability request got the answer to its slots call.
SlotsAnswered(r) == r.op = "check" /\ r.pc = "done" /\ r.resp.transport # "none"

\* The slots answer lists nothing for the date, or has a non-success status.
NoSlotsOrFailed(r) ==
    \/ r.resp.transport = "ok" /\ r.resp.slots = <<>>
    \/ r.resp.transport = "http_error"

\* Every slot of the result comes from an entry of the provider's list.
FromProvider(slots, entries) ==
    \A i \in 1..Len(slots) :
        \E j \in 1..Len(entries) :
            \/ entries[j].kind = "utc" /\ slots[i].start_time = UtcToLocalHM(entries[j].min)
            \/ entries[j].kind = "bad_iso" /\ slots[i].start_time = entries[j].tail

\* C12 as stated: when the provider lists no slots for the date or the slots
\* call is answered with a non-success status, check_availability returns an
\* empty slot sequence with a not-successful signal.
C12_EmptyNotSuccessful ==
    \A h \in Handlers :
        (SlotsAnswered(req[h]) /\ NoSlotsOrFailed(req[h]))
            => /\ req[h].client.state = "returned"
               /\ req[h].client.value.available_slots = <<>>
               /\ ~req[h].client.value.success

\* C12 amended: an empty list for the date is returned as an empty slot
\* sequence with success true; a non-success status raises the
\* availability failure and returns nothing; a returned slot always comes
\* from an entry of the provider's list, never from default business hours.
C12_EmptySucceedsFailureRaises ==
    \A h \in Handlers :
        SlotsAnswered(req[h])
            => /\ (req[h].resp.transport = "ok" /\ req[h].resp.slots = <<>>)
                     => /\ req[h].client.state = "returned"
                        /\ req[h].client.value.success
                        /\ req[h].client.value.available_slots = <<>>
               /\ req[h].resp.transport = "http_error"
                     => /\ req[h].client.state = "raised"
                        /\ req[h].client.error[1] = "Failed to check availability: "
               /\ req[h].client.state = "returned"
                     => FromProvider(req[h].client.value.available_slots,
                                     req[h].resp.slots)

\* The provider listed nothing for the date and the client returned.
C12_Witness ==
    \E h \in Handlers :
        /\ SlotsAnswered(req[h])
        /\ req[h].resp.transport = "ok" /\ req[h].resp.slots = <<>>
        /\ req[h].client.state = "returned"

\* ---- C13 ----
\* A well-formed entry: a dict whose time is a UTC instant.
WellFormed(e) == e.kind = "utc"

\* C13: when the slots call is answered with a list for the date, the call
\* succeeds and its result holds one slot per well-formed instant, in the
\* list's order, and no slot for any other entry.
C13_MalformedSkipped ==
    \A h \in Handlers :
        (SlotsAnswered(req[h]) /\ req[h].resp.transport = "ok")
            => LET good == SelectSeq(req[h].resp.slots, WellFormed)
                   result == req[h].client.value.available_slots
               IN  /\ req[h].client.state = "returned"
                   /\ req[h].client.value.success
                   /\ Len(result) = Len(good)
                   /\ \A i \in 1..Len(good) :
                          result[i].start_time = UtcToLocalHM(good[i].min)

\* ---- C14 ----
\* C14: the slots the translator returns for a list of UTC instants are in
\* the order of their local start times, whatever the order of the list.
C14_OrderedByStart ==
    \A h \in Handlers :
        ( /\ SlotsAnswered(req[h]) /\ req[h].client.state = "returned"
          /\ \A i \in 1..Len(req[h].resp.slots) : WellFormed(req[h].resp.slots[i]) )
            => LET result == req[h].client.value.available_slots
               IN  \A i \in 1..Len(result), j \in 1..Len(result) :
                       i < j => MinuteOfDay(result[i].start_time)
                                   <= MinuteOfDay(result[j].start_time)

\* ---- C15 ----
\* The status code of an answer as it would read in an error text.
StatusText(status) ==
    CASE status = 400 -> "400"
      [] status = 500 -> "500"
      [] status = 502 -> "502"
      [] OTHER -> "?"

\* C15: when the create-booking call is answered with a non-success status
\* that is not the no-assignee decline, the booking raises an error that
\* carries the provider's message and the status code of the answer.
C15_GenericErrorCarriesStatus ==
    \A h \in Handlers :
        ( /\ req[h].op = "book" /\ Done(h)
          /\ req[h].resp.transport = "http_error"
          /\ ~Contains(req[h].resp.message, NoUsersToken) )
            => /\ req[h].client.state = "raised"
               /\ \A i \in 1..Len(req[h].resp.message) :
                      Contains(req[h].client.error, req[h].resp.message[i])
               /\ Contains(req[h].client.error, StatusText(req[h].resp.status))

\* ---- C16 ----
\* The booking got a listing that holds the configured slug, and its time
\* reads as a clock time: nothing stands between it and its create-booking
\* call.
ReadyToBook(r) ==
    /\ r.op = "book" /\ r.et_transport = "ok" /\ ListedAllVisible
    /\ FromIsoClock(r.time).ok

SameInputs(r, q) ==
    r.target_date = q.target_date /\ r.time = q.time /\ r.email_id = q.email_id

\* C16: every booking that is ready to book has sent its own create-booking
\* call, whatever another request with the same inputs has sent or been
\* answered: two bookings with identical inputs make two calls.
C16_NoLocalDedup ==
    \A h \in Handlers :
        ReadyToBook(req[h])
            => /\ HasPost(req[h])
               /\ PostStart(req[h]).day * 1440 + PostStart(req[h]).hh * 60
                     + PostStart(req[h]).mm
                       = req[h].target_date * 1440 + FromIsoClock(req[h].time).h * 60
                         + FromIsoClock(req[h].time).m - IstOffsetMinutes
               /\ \A g \in Handlers \ {h} :
                      (ReadyToBook(req[g]) /\ SameInputs(req[h], req[g]))
                          => CallCount(req[h], {"POST /bookings"})
                               + CallCount(req[g], {"POST /bookings"}) = 2

\* Two bookings with identical inputs: the first was answered with a
\* booking, and the second has sent the same create-booking call again.
C16_Witness ==
    \E h \in Handlers, g \in Handlers :
        /\ h # g /\ SameInputs(req[h], req[g])
        /\ Done(h) /\ req[h].client.state = "returned"
        /\ HasPost(req[h]) /\ HasPost(req[g])
        /\ PostStart(req[h]) = PostStart(req[g])

\* ---- C17 ----
\* The attendee name of the create-booking call the request sent.
PostName(r) ==
    r.calls[CHOOSE i \in 1..Len(r.calls) : r.calls[i].kind = "POST /bookings"].args.name

\* name is email up to its first "@" with each "." turned into a space and
\* each word title-cased: a letter is upper case at the start of a word and
\* lower case inside one.
IsDerivedName(name, email) ==
    /\ Len(name) < Len(email) /\ email[Len(name) + 1] = "@"
    /\ \A i \in 1..Len(name) :
          /\ email[i] # "@"
          /\ IF email[i] = "."
             THEN name[i] = " "
             ELSE /\ ToLower(name[i]) = ToLower(email[i])
                  /\ IF i = 1 \/ email[i - 1] = "."
                     THEN name[i] = ToUpper(email[i])
                     ELSE name[i] = ToLower(email[i])

\* C17: the step in which a booking sends its create-booking call puts the
\* derived name in it: the email up to the first "@", dots as spaces, words
\* title-cased (jane.doe@x.com gives "Jane Doe", a.b.c@x.com gives "A B C");
\* a request in flight with the same email carries the same name, and the
\* step leaves the client's cached state as it was.
C17_NameDerivation ==
    [][\A h \in Handlers :
          (~HasPost(req[h]) /\ HasPost(req'[h]))
              => /\ IsDerivedName(PostName(req'[h]), req'[h].email_id)
                 /\ req'[h].email_id
                        = <<"j", "a", "n", "e", ".", "d", "o", "e", "@", "x", ".", "c", "o", "m">>
                      => PostName(req'[h]) = <<"J", "a", "n", "e", " ", "D", "o", "e">>
                 /\ req'[h].email_id
                        = <<"a", ".", "b", ".", "c", "@", "x", ".", "c", "o", "m">>
                      => PostName(req'[h]) = <<"A", " ", "B", " ", "C">>
                 /\ \A g \in Handlers :
                        (HasPost(req'[g]) /\ req'[g].email_id = req'[h].email_id)
                            => PostName(req'[g]) = PostName(req'[h])
                 /\ user_id' = user_id]_vars

\* A booking for jane.doe@x.com was sent with the name "Jane Doe".
C17_Witness ==
    \E h \in Handlers :
        /\ HasPost(req[h])
        /\ req[h].email_id
              = <<"j", "a", "n", "e", ".", "d", "o", "e", "@", "x", ".", "c", "o", "m">>
        /\ PostName(req[h]) = <<"J", "a", "n", "e", " ", "D", "o", "e">>

\* ---- C18 ----
\* The request has sent an actor-identity call and got its answer.
FetchedMe(r) == CallCount(r, {"GET /me"}) = 1 /\ r.pc # "await_me"

\* C18: the cached actor identifier is unset or the provider's identifier,
\* before and after every step, and a step taken with the identifier set
\* leaves it as it is, whichever request's answer the step handles.
C18_CacheSetOnce ==
    [][/\ user_id \in {None, provider.userId}
       /\ user_id' \in {None, provider.userId}
       /\ Truthy(user_id) => user_id' = user_id]_vars

\* Two requests found the cache empty and both fetched: one fetch failed,
\* the other succeeded, and the cache holds the provider's identifier.
C18_Witness ==
    \E h \in Handlers, g \in Handlers :
        /\ h # g /\ FetchedMe(req[h]) /\ FetchedMe(req[g])
        /\ req[h].local_user_id = provider.userId
        /\ req[g].local_user_id = None
        /\ user_id = provider.userId

\* ---- C19 ----
\* C19: the slots call of a request for date D, for a team-owned or an
\* individually-owned event type, asks for D 03:30:00Z to D 11:30:00Z and
\* carries the event type's identifier and its duration.
C19_WindowShiftedByOffset ==
    \A h \in Handlers :
        \A i \in 1..Len(req[h].calls) :
            req[h].calls[i].kind \in SlotsKinds
                => LET args == req[h].calls[i].args
                       d == req[h].target_date
                   IN  /\ args.startTime = [day |-> d, hh |-> 3, mm |-> 30, ss |-> 0]
                       /\ args.endTime = [day |-> d, hh |-> 11, mm |-> 30, ss |-> 0]
                       /\ args.eventTypeId = req[h].event_type.id
                       /\ args.duration = LengthOf(req[h].event_type)

\* ---- C20 ----
\* The kinds of the remote calls a request has sent, in order.
KindsOf(r) == [i \in 1..Len(r.calls) |-> r.calls[i].kind]

\* The orders of calls a booking may have sent so far.
BookCallOrders ==
    { <<>>, <<"GET /me">>, <<"GET /me", "GET /event-types">>,
      <<"GET /me", "GET /event-types", "POST /bookings">>,
      <<"GET /event-types">>, <<"GET /event-types", "POST /bookings">> }

\* C20: after every step, the calls of a booking are, in this order, the
\* actor-identity fetch, the event-type listing and one create-booking call;
\* the fetch is sent only by a step that finds the identifier unset and
\* skipped only by one that finds it set; the create-booking call is there
\* only after a listing that held the configured slug; and a booking whose
\* fetch failed has gone on to the listing and, when nothing else stands in
\* the way, to the create-booking call.
C20_CallOrder ==
    [][\A h \in Handlers :
          req'[h].op = "book"
              => /\ KindsOf(req'[h]) \in BookCallOrders
                 /\ SendsMe(h) => ~Truthy(user_id)
                 /\ (req[h].calls # req'[h].calls
                        /\ KindsOf(req'[h]) = <<"GET /event-types">>)
                       => Truthy(user_id)
                 /\ HasPost(req'[h])
                       => /\ req'[h].et_transport = "ok"
                          /\ req'[h].event_type.slug = ConfiguredSlug
                 /\ MeFailed(req'[h])
                       => /\ Len(req'[h].calls) >= 2
                          /\ req'[h].calls[2].kind = "GET /event-types"
                          /\ ReadyToBook(req'[h]) => HasPost(req'[h])]_vars

\* A booking whose actor-identity fetch failed has sent the listing and the
\* create-booking call.
C20_Witness ==
    \E h \in Handlers :
        /\ req[h].op = "book" /\ MeFailed(req[h])
        /\ KindsOf(req[h]) = <<"GET /me", "GET /event-types", "POST /bookings">>

\* ---- C21 ----
\* This step handles the answer to coroutine h's actor-identity call, and
\* the fetch failed.
MeFailsNow(h) ==
    /\ req[h].pc = "await_me" /\ req'[h].pc # "await_me"
    /\ req'[h].local_user_id = None

\* This step handles the answer to coroutine h's listing, and the listing
\* yields no event type with the configured slug.
ListingFailsNow(h) == req[h].pc = "await_event_types" /\ NoMatch(req'[h])

\* This step starts a direct booking in coroutine h.
BookStartsNow(h) ==
    /\ req[h].pc \in {"idle", "done"}
    /\ req'[h].layer = "client" /\ req'[h].op = "book"
    /\ req'[h].pc \notin {"idle", "done"}

\* C21: a step in which the actor-identity fetch fails (no answer,
\* non-success status, body without "success" or without an id) or in which
\* the listing yields no event type leaves the cached identifier and the
\* provider's data exactly as they were; and a booking that starts with the
\* identifier unset sends the actor-identity call again.
C21_FailureLeavesCache ==
    [][\A h \in Handlers :
          /\ (MeFailsNow(h) \/ ListingFailsNow(h))
                => user_id' = user_id /\ provider' = provider
          /\ (BookStartsNow(h) /\ ~Truthy(user_id)) => SendsMe(h)]_vars

\* A booking's fetch failed and left the cache unset, and another booking
\* has sent the actor-identity call of its own.
C21_Witness ==
    \E h \in Handlers, g \in Handlers :
        /\ h # g /\ Done(h) /\ MeFailed(req[h])
        /\ user_id = None
        /\ req[g].op = "book" /\ req[g].pc = "await_me"

====
